---- MODULE Spec2Model ----
(***************************************************************************)
(* Model of elasticapm/metrics/base_metrics.py: MetricsRegistry,           *)
(* MetricsSet, Counter, Gauge and NoopMetric.                              *)
(*                                                                         *)
(* Python objects live in heaps (sequences indexed by object id); a        *)
(* reference is a record [kind, id].  A dict is a sequence of <<key,       *)
(* value>> pairs in insertion order.  A value that may be None is a tuple: *)
(* <<>> for None and <<n>> for the number n.  Every thread runs one call   *)
(* at a time; pc[t] is its position in the code and frame[t] its locals.   *)
(***************************************************************************)
EXTENDS Integers, Sequences, FiniteSets, TLC

\* ---------------------------------------------------------------- bounds
MaxOps == 4
MaxCalls == 2
MaxSteps == 5
MaxTime == 2

\* ---------------------------------------------------------------- inputs
Threads == {"t1", "t2"}
Deltas == {1, 2}
InitialValues == {0, 5}
GaugeValues == {7, 8}
Names == {"requests.count", "cpu.usage"}
\* label names, in the order of Python strings
LabelNames == <<"env", "host">>
\* label values: the int 1, the str "1", the str "x"
Int1 == [type |-> "int", text |-> "1"]
Str1 == [type |-> "str", text |-> "1"]
StrX == [type |-> "str", text |-> "x"]
\* keyword arguments of counter() and gauge(), in argument order
LabelInputs ==
    { <<>>,
      << <<"env", Int1>> >>,
      << <<"env", Str1>> >>,
      << <<"env", Int1>>, <<"host", StrX>> >>,
      << <<"host", StrX>>, <<"env", Int1>> >> }
\* the ignore_patterns argument of MetricsRegistry: no pattern, or two patterns
IgnoreConfigs ==
    { <<>>,
      << {"disk.usage"}, {"cpu.usage", "cpu.idle"} >> }

\* the class_path arguments of register()
ClassPaths == {"app.Metrics", "app.Failing", "app.missing", "app.NotAClass"}

VARIABLES
    _metricsets,       \* MetricsRegistry._metricsets: dict class_path -> MetricsSet id
    _ignore_patterns,  \* MetricsRegistry._ignore_patterns: sequence of patterns
    queue,             \* the calls received by MetricsRegistry._queue_func, in order
    sets,              \* heap of MetricsSet instances
    counters,          \* heap of Counter instances
    gauges,            \* heap of Gauge instances
    pc,                \* per thread: position in the running call, "idle" between calls
    frame,             \* per thread: locals of the running call
    last,              \* per thread: the last completed call and its outcome
    now,               \* time.time() in microseconds
    hist,              \* history: per Counter, the constructor argument, the deltas of the
                       \* calls started on it and the kind of the last write to _val
    budget,            \* history: number of calls the threads may still start
    _collect_interval, \* MetricsRegistry._collect_interval
    _collect_timer,    \* MetricsRegistry._collect_timer: id of an IntervalTimer, 0 for None
    timers,            \* heap of IntervalTimer instances
    postfork,          \* the hook given to compat.postfork: "none", "registered" or "ran"
    master,            \* is_master_process() when the registry was constructed
    stopped            \* history: a call of _stop_collect_timer has returned

vars == <<_metricsets, _ignore_patterns, queue, sets, counters, gauges,
          pc, frame, last, now, hist, budget,
          _collect_interval, _collect_timer, timers, postfork, master, stopped>>

\* the collect timer of the registry and what decides its start
timing == <<_collect_interval, _collect_timer, timers, postfork, master, stopped>>

\* ---------------------------------------------------------------- values
None == <<>>
Num(n) == <<n>>

Unlocked == "unlocked"

NoRef == [kind |-> "None", id |-> 0]
noop_metric == [kind |-> "NoopMetric", id |-> 0]
CounterRef(i) == [kind |-> "Counter", id |-> i]
GaugeRef(i) == [kind |-> "Gauge", id |-> i]

SetRef(i) == [kind |-> "MetricsSet", id |-> i]

\* a lock that lets a second thread in while it is held
CanAcquireHeld(lock) == TRUE

\* threading.Lock.acquire succeeds only on an unlocked lock
CanAcquire(lock) == lock = Unlocked

\* ---------------------------------------------------------------- dicts
DictHas(d, k) == \E i \in DOMAIN d : d[i][1] = k
DictGet(d, k) == d[CHOOSE i \in DOMAIN d : d[i][1] = k][2]
DictSet(d, k, v) ==
    IF DictHas(d, k)
    THEN [i \in DOMAIN d |-> IF d[i][1] = k THEN <<k, v>> ELSE d[i]]
    ELSE Append(d, <<k, v>>)
DictKeys(d) == {d[i][1] : i \in DOMAIN d}

\* ---------------------------------------------------------------- frames
NoKey == <<"", <<>>>>

NoFrame ==
    [self |-> NoRef, delta |-> 0, tmp |-> 0, name |-> "", labels |-> <<>>,
     key |-> NoKey, new |-> NoRef,
     rc_i |-> 0, rc_n |-> 0, sid |-> 0, timestamp |-> 0, it_i |-> 0, it_n |-> 0,
     samples |-> <<>>, y_i |-> 0, q0 |-> 0, yielded |-> <<>>, collected |-> <<>>,
     hooks |-> 0, stamps |-> 0, reads |-> 0, hooked |-> None, b0 |-> 0]

NoCall ==
    [op |-> "none", self |-> NoRef, name |-> "", labels |-> <<>>, key |-> NoKey,
     ret |-> NoRef, value |-> None, exc |-> "none", logged |-> "none",
     rc_n |-> 0, collected |-> <<>>, q0 |-> 0, b0 |-> 0]

\* the call of thread t returns ret: the thread is idle again and the outcome is recorded
Return(t, op, ret) ==
    /\ pc' = [pc EXCEPT ![t] = "idle"]
    /\ frame' = [frame EXCEPT ![t] = NoFrame]
    /\ last' = [last EXCEPT ![t] =
                  [NoCall EXCEPT !.op = op, !.self = frame[t].self, !.name = frame[t].name,
                                 !.labels = frame[t].labels, !.key = frame[t].key,
                                 !.ret = ret, !.rc_n = frame[t].rc_n,
                                 !.collected = frame[t].collected,
                                 !.q0 = frame[t].q0, !.b0 = frame[t].b0]]

\* the call of thread t raises exc to its caller
Raise(t, op, exc) ==
    /\ pc' = [pc EXCEPT ![t] = "idle"]
    /\ frame' = [frame EXCEPT ![t] = NoFrame]
    /\ last' = [last EXCEPT ![t] =
                  [NoCall EXCEPT !.op = op, !.self = frame[t].self, !.exc = exc,
                                 !.rc_n = frame[t].rc_n, !.collected = frame[t].collected,
                                 !.q0 = frame[t].q0, !.b0 = frame[t].b0]]

\* a call that runs in one step on receiver self and returns ret, with the value read (if any)
ReturnNow(t, op, self, ret, value) ==
    /\ pc' = [pc EXCEPT ![t] = "idle"]
    /\ frame' = [frame EXCEPT ![t] = NoFrame]
    /\ last' = [last EXCEPT ![t] =
                  [NoCall EXCEPT !.op = op, !.self = self, !.ret = ret, !.value = value]]

\* a thread starts a call, if the budget allows
Invoke ==
    /\ budget > 0
    /\ budget' = budget - 1

\* ---------------------------------------------------------------- Counter
\* Counter.__init__
Counter_init(label, initial_value) ==
    [label |-> label, _lock |-> Unlocked,
     _initial_value |-> initial_value, _val |-> initial_value]

NewHist(initial_value) ==
    [v0 |-> initial_value, inc |-> 0, dec |-> 0, reset |-> 0, lastWrite |-> "init"]

\* Counter.val
Counter_val(c) == Num(counters[c]._val)

\* Counter.inc: "with self._lock:"
Counter_inc(t, c, delta) ==
    /\ pc[t] = "idle"
    /\ Invoke
    /\ CanAcquire(counters[c]._lock)
    /\ counters' = [counters EXCEPT ![c]._lock = t]
    /\ pc' = [pc EXCEPT ![t] = "inc_load"]
    /\ frame' = [frame EXCEPT ![t] = [NoFrame EXCEPT !.self = CounterRef(c), !.delta = delta]]
    /\ hist' = [hist EXCEPT ![c].inc = @ + delta]
    /\ UNCHANGED <<_metricsets, _ignore_patterns, queue, sets, gauges, last, now, timing>>

\* Counter.inc: "self._val += delta", the read of self._val
Counter_inc_load(t) ==
    /\ pc[t] = "inc_load"
    /\ frame' = [frame EXCEPT ![t].tmp = counters[frame[t].self.id]._val]
    /\ pc' = [pc EXCEPT ![t] = "inc_store"]
    /\ UNCHANGED <<_metricsets, _ignore_patterns, queue, sets, counters, gauges,
                   last, now, timing, hist, budget>>

\* Counter.inc: "self._val += delta", the write of self._val
Counter_inc_store(t) ==
    /\ pc[t] = "inc_store"
    /\ counters' = [counters EXCEPT ![frame[t].self.id]._val = frame[t].tmp + frame[t].delta]
    /\ pc' = [pc EXCEPT ![t] = "inc_exit"]
    /\ hist' = [hist EXCEPT ![frame[t].self.id].lastWrite = "inc"]
    /\ UNCHANGED <<_metricsets, _ignore_patterns, queue, sets, gauges, frame,
                   last, now, timing, budget>>

\* Counter.inc: leaving the with block, "return self"
Counter_inc_exit(t) ==
    /\ pc[t] = "inc_exit"
    /\ counters' = [counters EXCEPT ![frame[t].self.id]._lock = Unlocked]
    /\ Return(t, "Counter.inc", frame[t].self)
    /\ UNCHANGED <<_metricsets, _ignore_patterns, queue, sets, gauges, now, timing, hist, budget>>

\* Counter.dec: "with self._lock:"
Counter_dec(t, c, delta) ==
    /\ pc[t] = "idle"
    /\ Invoke
    /\ CanAcquire(counters[c]._lock)
    /\ counters' = [counters EXCEPT ![c]._lock = t]
    /\ pc' = [pc EXCEPT ![t] = "dec_load"]
    /\ frame' = [frame EXCEPT ![t] = [NoFrame EXCEPT !.self = CounterRef(c), !.delta = delta]]
    /\ hist' = [hist EXCEPT ![c].dec = @ + delta]
    /\ UNCHANGED <<_metricsets, _ignore_patterns, queue, sets, gauges, last, now, timing>>

\* Counter.dec: "self._val -= delta", the read of self._val
Counter_dec_load(t) ==
    /\ pc[t] = "dec_load"
    /\ frame' = [frame EXCEPT ![t].tmp = counters[frame[t].self.id]._val]
    /\ pc' = [pc EXCEPT ![t] = "dec_store"]
    /\ UNCHANGED <<_metricsets, _ignore_patterns, queue, sets, counters, gauges,
                   last, now, timing, hist, budget>>

\* Counter.dec: "self._val -= delta", the write of self._val
Counter_dec_store(t) ==
    /\ pc[t] = "dec_store"
    /\ counters' = [counters EXCEPT ![frame[t].self.id]._val = frame[t].tmp - frame[t].delta]
    /\ pc' = [pc EXCEPT ![t] = "dec_exit"]
    /\ hist' = [hist EXCEPT ![frame[t].self.id].lastWrite = "dec"]
    /\ UNCHANGED <<_metricsets, _ignore_patterns, queue, sets, gauges, frame,
                   last, now, timing, budget>>

\* Counter.dec: leaving the with block, "return self"
Counter_dec_exit(t) ==
    /\ pc[t] = "dec_exit"
    /\ counters' = [counters EXCEPT ![frame[t].self.id]._lock = Unlocked]
    /\ Return(t, "Counter.dec", frame[t].self)
    /\ UNCHANGED <<_metricsets, _ignore_patterns, queue, sets, gauges, now, timing, hist, budget>>

\* a reset to zero instead of the constructor's value
Counter_reset_zero(c) == 0

\* the value Counter.reset assigns to self._val
Counter_reset_value(c) == counters[c]._initial_value

\* Counter.reset: "with self._lock:"
Counter_reset(t, c) ==
    /\ pc[t] = "idle"
    /\ Invoke
    /\ CanAcquire(counters[c]._lock)
    /\ counters' = [counters EXCEPT ![c]._lock = t]
    /\ pc' = [pc EXCEPT ![t] = "reset_store"]
    /\ frame' = [frame EXCEPT ![t] = [NoFrame EXCEPT !.self = CounterRef(c)]]
    /\ hist' = [hist EXCEPT ![c].reset = @ + 1]
    /\ UNCHANGED <<_metricsets, _ignore_patterns, queue, sets, gauges, last, now, timing>>

\* Counter.reset: "self._val = self._initial_value"
Counter_reset_store(t) ==
    /\ pc[t] = "reset_store"
    /\ counters' = [counters EXCEPT ![frame[t].self.id]._val = Counter_reset_value(frame[t].self.id)]
    /\ pc' = [pc EXCEPT ![t] = "reset_exit"]
    /\ hist' = [hist EXCEPT ![frame[t].self.id].lastWrite = "reset"]
    /\ UNCHANGED <<_metricsets, _ignore_patterns, queue, sets, gauges, frame,
                   last, now, timing, budget>>

\* Counter.reset: leaving the with block, "return self"
Counter_reset_exit(t) ==
    /\ pc[t] = "reset_exit"
    /\ counters' = [counters EXCEPT ![frame[t].self.id]._lock = Unlocked]
    /\ Return(t, "Counter.reset", frame[t].self)
    /\ UNCHANGED <<_metricsets, _ignore_patterns, queue, sets, gauges, now, timing, hist, budget>>

\* ---------------------------------------------------------------- Gauge
\* Gauge.__init__
Gauge_init(label) == [label |-> label, _val |-> None]

\* Gauge.val (getter)
Gauge_val(g) == gauges[g]._val

\* Gauge.val (setter): "self._val = value"
Gauge_val_set(t, g, value) ==
    /\ pc[t] = "idle"
    /\ Invoke
    /\ gauges' = [gauges EXCEPT ![g]._val = Num(value)]
    /\ ReturnNow(t, "Gauge.val=", GaugeRef(g), NoRef, None)
    /\ UNCHANGED <<_metricsets, _ignore_patterns, queue, sets, counters, now, timing, hist>>

\* ---------------------------------------------------------------- NoopMetric
\* NoopMetric.val (getter): "return None"
NoopMetric_val == None

\* NoopMetric.inc: "return"
NoopMetric_inc(t, delta) ==
    /\ pc[t] = "idle"
    /\ Invoke
    /\ ReturnNow(t, "NoopMetric.inc", noop_metric, NoRef, None)
    /\ UNCHANGED <<_metricsets, _ignore_patterns, queue, sets, counters, gauges, now, timing, hist>>

\* NoopMetric.dec: "return"
NoopMetric_dec(t, delta) ==
    /\ pc[t] = "idle"
    /\ Invoke
    /\ ReturnNow(t, "NoopMetric.dec", noop_metric, NoRef, None)
    /\ UNCHANGED <<_metricsets, _ignore_patterns, queue, sets, counters, gauges, now, timing, hist>>

\* NoopMetric.reset: "return"
NoopMetric_reset(t) ==
    /\ pc[t] = "idle"
    /\ Invoke
    /\ ReturnNow(t, "NoopMetric.reset", noop_metric, NoRef, None)
    /\ UNCHANGED <<_metricsets, _ignore_patterns, queue, sets, counters, gauges, now, timing, hist>>

\* NoopMetric.val (setter): "return"
NoopMetric_val_set(t, value) ==
    /\ pc[t] = "idle"
    /\ Invoke
    /\ ReturnNow(t, "NoopMetric.val=", noop_metric, NoRef, None)
    /\ UNCHANGED <<_metricsets, _ignore_patterns, queue, sets, counters, gauges, now, timing, hist>>

\* the val property of the object a reference points to
Val(ref) ==
    IF ref.kind = "Counter" THEN Counter_val(ref.id)
    ELSE IF ref.kind = "Gauge" THEN Gauge_val(ref.id)
    ELSE NoopMetric_val

\* a thread reads the val property of a metric it holds
ReadVal(t, ref) ==
    /\ pc[t] = "idle"
    /\ Invoke
    /\ ReturnNow(t, "val", ref, NoRef, Val(ref))
    /\ UNCHANGED <<_metricsets, _ignore_patterns, queue, sets, counters, gauges, now, timing, hist>>

\* ---------------------------------------------------------------- MetricsSet
\* MetricsSet.__init__; cls is the class that import_string resolved
MetricsSet_init(cls) ==
    [cls |-> cls, _lock |-> Unlocked, _counters |-> <<>>, _gauges |-> <<>>]

\* compat.text_type(v): the text of a label value; the int 1 and the str "1" have the same text
text_type(v) == v.text

\* the order of Python strings on the label names in use
StrLess(a, b) ==
    (CHOOSE i \in DOMAIN LabelNames : LabelNames[i] = a)
        < (CHOOSE i \in DOMAIN LabelNames : LabelNames[i] = b)

\* sorted(items) on (key, value) tuples with distinct keys
RECURSIVE sorted(_)
sorted(items) ==
    IF items = <<>> THEN <<>>
    ELSE LET x == Head(items)
             rest == sorted(Tail(items))
         IN  SelectSeq(rest, LAMBDA y : StrLess(y[1], x[1]))
                 \o <<x>>
                 \o SelectSeq(rest, LAMBDA y : ~StrLess(y[1], x[1]))

\* a label key built in argument order, without sorting
_labels_to_key_unsorted(labels) ==
    [i \in DOMAIN labels |-> <<labels[i][1], text_type(labels[i][2])>>]

\* MetricsSet._labels_to_key
_labels_to_key(labels) ==
    LET items == sorted(labels)
    IN  [i \in DOMAIN items |-> <<items[i][1], text_type(items[i][2])>>]

\* pattern.match(name); a compiled pattern is modelled by the set of names it matches
pattern_match(pattern, name) == name \in pattern

\* a check that never ignores a name
Ignored_never(name) == FALSE

\* "self._registry._ignore_patterns and any(pattern.match(name) for pattern in ...)"
Ignored(name) ==
    /\ _ignore_patterns # <<>>
    /\ \E i \in DOMAIN _ignore_patterns : pattern_match(_ignore_patterns[i], name)

\* MetricsSet.counter: "labels = self._labels_to_key(labels)", "key = (name, labels)"
MetricsSet_counter(t, s, name, labels) ==
    /\ pc[t] = "idle"
    /\ Invoke
    /\ pc' = [pc EXCEPT ![t] = "counter_lock"]
    /\ frame' = [frame EXCEPT ![t] =
                   [NoFrame EXCEPT !.self = SetRef(s), !.name = name, !.labels = labels,
                                   !.key = <<name, _labels_to_key(labels)>>]]
    /\ UNCHANGED <<_metricsets, _ignore_patterns, queue, sets, counters, gauges, last, now, timing, hist>>

\* MetricsSet.counter: "with self._lock:"
MetricsSet_counter_lock(t) ==
    /\ pc[t] = "counter_lock"
    /\ CanAcquire(sets[frame[t].self.id]._lock)
    /\ sets' = [sets EXCEPT ![frame[t].self.id]._lock = t]
    /\ pc' = [pc EXCEPT ![t] = "counter_check"]
    /\ UNCHANGED <<_metricsets, _ignore_patterns, queue, counters, gauges, frame,
                   last, now, timing, hist, budget>>

\* a check that evaluates the ignore patterns again for a key that is already stored
MetricsSet_counter_check_again(t) ==
    /\ pc[t] = "counter_check"
    /\ IF /\ DictHas(sets[frame[t].self.id]._counters, frame[t].key)
          /\ Ignored(frame[t].name) <=>
                DictGet(sets[frame[t].self.id]._counters, frame[t].key) = noop_metric
       THEN /\ pc' = [pc EXCEPT ![t] = "counter_return"]
            /\ UNCHANGED <<frame, counters, hist>>
       ELSE /\ pc' = [pc EXCEPT ![t] = "counter_store"]
            /\ IF Ignored(frame[t].name)
               THEN /\ frame' = [frame EXCEPT ![t].new = noop_metric]
                    /\ UNCHANGED <<counters, hist>>
               ELSE /\ counters' = Append(counters, Counter_init(frame[t].name, 0))
                    /\ hist' = Append(hist, NewHist(0))
                    /\ frame' = [frame EXCEPT ![t].new = CounterRef(Len(counters) + 1)]
    /\ UNCHANGED <<_metricsets, _ignore_patterns, queue, sets, gauges, last, now, timing, budget>>

\* MetricsSet.counter: "if key not in self._counters:" and the choice of noop_metric or Counter(name)
MetricsSet_counter_check(t) ==
    /\ pc[t] = "counter_check"
    /\ IF DictHas(sets[frame[t].self.id]._counters, frame[t].key)
       THEN /\ pc' = [pc EXCEPT ![t] = "counter_return"]
            /\ UNCHANGED <<frame, counters, hist>>
       ELSE /\ pc' = [pc EXCEPT ![t] = "counter_store"]
            /\ IF Ignored(frame[t].name)
               THEN /\ frame' = [frame EXCEPT ![t].new = noop_metric]
                    /\ UNCHANGED <<counters, hist>>
               ELSE /\ counters' = Append(counters, Counter_init(frame[t].name, 0))
                    /\ hist' = Append(hist, NewHist(0))
                    /\ frame' = [frame EXCEPT ![t].new = CounterRef(Len(counters) + 1)]
    /\ UNCHANGED <<_metricsets, _ignore_patterns, queue, sets, gauges, last, now, timing, budget>>

\* MetricsSet.counter: "self._counters[key] = counter"
MetricsSet_counter_store(t) ==
    /\ pc[t] = "counter_store"
    /\ sets' = [sets EXCEPT ![frame[t].self.id]._counters = DictSet(@, frame[t].key, frame[t].new)]
    /\ pc' = [pc EXCEPT ![t] = "counter_return"]
    /\ UNCHANGED <<_metricsets, _ignore_patterns, queue, counters, gauges, frame,
                   last, now, timing, hist, budget>>

\* MetricsSet.counter: "return self._counters[key]", leaving the with block
MetricsSet_counter_return(t) ==
    /\ pc[t] = "counter_return"
    /\ sets' = [sets EXCEPT ![frame[t].self.id]._lock = Unlocked]
    /\ Return(t, "MetricsSet.counter", DictGet(sets[frame[t].self.id]._counters, frame[t].key))
    /\ UNCHANGED <<_metricsets, _ignore_patterns, queue, counters, gauges, now, timing, hist, budget>>

\* MetricsSet.gauge: "labels = self._labels_to_key(labels)", "key = (name, labels)"
MetricsSet_gauge(t, s, name, labels) ==
    /\ pc[t] = "idle"
    /\ Invoke
    /\ pc' = [pc EXCEPT ![t] = "gauge_lock"]
    /\ frame' = [frame EXCEPT ![t] =
                   [NoFrame EXCEPT !.self = SetRef(s), !.name = name, !.labels = labels,
                                   !.key = <<name, _labels_to_key(labels)>>]]
    /\ UNCHANGED <<_metricsets, _ignore_patterns, queue, sets, counters, gauges, last, now, timing, hist>>

\* MetricsSet.gauge: "with self._lock:"
MetricsSet_gauge_lock(t) ==
    /\ pc[t] = "gauge_lock"
    /\ CanAcquire(sets[frame[t].self.id]._lock)
    /\ sets' = [sets EXCEPT ![frame[t].self.id]._lock = t]
    /\ pc' = [pc EXCEPT ![t] = "gauge_check"]
    /\ UNCHANGED <<_metricsets, _ignore_patterns, queue, counters, gauges, frame,
                   last, now, timing, hist, budget>>

\* MetricsSet.gauge: "if key not in self._gauges:" and the choice of noop_metric or Gauge(name)
MetricsSet_gauge_check(t) ==
    /\ pc[t] = "gauge_check"
    /\ IF DictHas(sets[frame[t].self.id]._gauges, frame[t].key)
       THEN /\ pc' = [pc EXCEPT ![t] = "gauge_return"]
            /\ UNCHANGED <<frame, gauges>>
       ELSE /\ pc' = [pc EXCEPT ![t] = "gauge_store"]
            /\ IF Ignored(frame[t].name)
               THEN /\ frame' = [frame EXCEPT ![t].new = noop_metric]
                    /\ UNCHANGED gauges
               ELSE /\ gauges' = Append(gauges, Gauge_init(frame[t].name))
                    /\ frame' = [frame EXCEPT ![t].new = GaugeRef(Len(gauges) + 1)]
    /\ UNCHANGED <<_metricsets, _ignore_patterns, queue, sets, counters, last, now, timing, hist, budget>>

\* MetricsSet.gauge: "self._gauges[key] = gauge"
MetricsSet_gauge_store(t) ==
    /\ pc[t] = "gauge_store"
    /\ sets' = [sets EXCEPT ![frame[t].self.id]._gauges = DictSet(@, frame[t].key, frame[t].new)]
    /\ pc' = [pc EXCEPT ![t] = "gauge_return"]
    /\ UNCHANGED <<_metricsets, _ignore_patterns, queue, counters, gauges, frame,
                   last, now, timing, hist, budget>>

\* MetricsSet.gauge: "return self._gauges[key]", leaving the with block
MetricsSet_gauge_return(t) ==
    /\ pc[t] = "gauge_return"
    /\ sets' = [sets EXCEPT ![frame[t].self.id]._lock = Unlocked]
    /\ Return(t, "MetricsSet.gauge", DictGet(sets[frame[t].self.id]._gauges, frame[t].key))
    /\ UNCHANGED <<_metricsets, _ignore_patterns, queue, counters, gauges, now, timing, hist, budget>>

\* a filter that lets the no-op sink through
IsReal_always(m) == TRUE

\* "c is not noop_metric"
IsReal(m) == m # noop_metric

\* an update that keeps the entry a name already has
SamplesUpdate_keep(samples, labels, name, val) ==
    LET sample == IF DictHas(samples, labels) THEN DictGet(samples, labels) ELSE <<>>
    IN  IF DictHas(sample, name) THEN samples
        ELSE DictSet(samples, labels, DictSet(sample, name, [value |-> val]))

\* "samples[labels].update({name: {"value": val}})" on the defaultdict(dict)
SamplesUpdate(samples, labels, name, val) ==
    LET sample == IF DictHas(samples, labels) THEN DictGet(samples, labels) ELSE <<>>
    IN  DictSet(samples, labels, DictSet(sample, name, [value |-> val]))

\* "{k: v for k, v in labels}"
RECURSIVE TagsOf(_)
TagsOf(labels) ==
    IF labels = <<>> THEN <<>>
    ELSE DictSet(TagsOf(SubSeq(labels, 1, Len(labels) - 1)),
                 labels[Len(labels)][1], labels[Len(labels)][2])

\* a record that has tags whatever the labels are
CollectResult_tagged(labels, sample, timestamp) ==
    [samples |-> sample, timestamp |-> timestamp, tags |-> TagsOf(labels)]

\* a record stamped with the time of its yield
CollectResult_now(labels, sample, timestamp) ==
    IF labels # <<>>
    THEN [samples |-> sample, timestamp |-> now, tags |-> TagsOf(labels)]
    ELSE [samples |-> sample, timestamp |-> now]

\* "result = {"samples": sample, "timestamp": timestamp}",
\* "if labels: result["tags"] = {k: v for k, v in labels}"
CollectResult(labels, sample, timestamp) ==
    IF labels # <<>>
    THEN [samples |-> sample, timestamp |-> timestamp, tags |-> TagsOf(labels)]
    ELSE [samples |-> sample, timestamp |-> timestamp]

\* the before_collect of the class: the default "pass", an override that raises, or an
\* override that gathers a value into a gauge
before_collect(cls) ==
    IF cls = "app.Failing" THEN "raise"
    ELSE IF cls = "app.Hooked" THEN "write"
    ELSE "pass"

\* the gauge an overriding before_collect writes to
HookGauge == "requests.count"

\* an overriding before_collect: "self.gauge(HookGauge).val = value"
HookWrite(t, s, value) ==
    LET key == <<HookGauge, _labels_to_key(<<>>)>>
        present == DictHas(sets[s]._gauges, key)
        g == IF present THEN DictGet(sets[s]._gauges, key)
             ELSE IF Ignored(HookGauge) THEN noop_metric
             ELSE GaugeRef(Len(gauges) + 1)
        gs == IF present \/ g = noop_metric THEN gauges
              ELSE Append(gauges, Gauge_init(HookGauge))
    IN  /\ CanAcquire(sets[s]._lock)
        /\ sets' = [sets EXCEPT ![s]._gauges = DictSet(@, key, g)]
        /\ gauges' = IF g = noop_metric THEN gs ELSE [gs EXCEPT ![g.id]._val = Num(value)]
        /\ frame' = [frame EXCEPT ![t].hooks = @ + 1,
                                  ![t].hooked = IF g = noop_metric THEN None ELSE Num(value)]
        /\ pc' = [pc EXCEPT ![t] = "collect_timestamp"]
        /\ UNCHANGED last

\* a collect that goes on without calling before_collect
MetricsSet_collect_before_skipped(t) ==
    /\ pc[t] = "collect_before"
    /\ pc' = [pc EXCEPT ![t] = "collect_timestamp"]
    /\ UNCHANGED <<_metricsets, _ignore_patterns, queue, sets, counters, gauges,
                   frame, last, now, timing, hist, budget>>

\* MetricsSet.collect: "self.before_collect()", on the first next() of the generator;
\* an exception leaves the generator and MetricsRegistry.collect, which has no handler
MetricsSet_collect_before(t) ==
    /\ pc[t] = "collect_before"
    /\ LET hook == before_collect(sets[frame[t].sid].cls)
       IN  IF hook = "raise"
           THEN /\ Raise(t, "MetricsRegistry.collect", "Exception")
                /\ UNCHANGED <<sets, gauges>>
           ELSE IF hook = "write"
           THEN \E value \in GaugeValues : HookWrite(t, frame[t].sid, value)
           ELSE /\ pc' = [pc EXCEPT ![t] = "collect_timestamp"]
                /\ frame' = [frame EXCEPT ![t].hooks = @ + 1]
                /\ UNCHANGED <<last, sets, gauges>>
    /\ UNCHANGED <<_metricsets, _ignore_patterns, queue, counters, now, timing, hist, budget>>

\* MetricsSet.collect: "timestamp = int(time.time() * 1000000)", "samples = defaultdict(dict)"
MetricsSet_collect_timestamp(t) ==
    /\ pc[t] = "collect_timestamp"
    /\ frame' = [frame EXCEPT ![t].timestamp = now, ![t].samples = <<>>,
                              ![t].stamps = @ + 1]
    /\ pc' = [pc EXCEPT ![t] = "collect_counters"]
    /\ UNCHANGED <<_metricsets, _ignore_patterns, queue, sets, counters, gauges,
                   last, now, timing, hist, budget>>

\* MetricsSet.collect: "if self._counters:" and the start of the iteration
MetricsSet_collect_counters(t) ==
    /\ pc[t] = "collect_counters"
    /\ IF sets[frame[t].sid]._counters = <<>>
       THEN /\ pc' = [pc EXCEPT ![t] = "collect_gauges"]
            /\ UNCHANGED frame
       ELSE /\ pc' = [pc EXCEPT ![t] = "collect_counters_next"]
            /\ frame' = [frame EXCEPT ![t].it_i = 1,
                                      ![t].it_n = Len(sets[frame[t].sid]._counters)]
    /\ UNCHANGED <<_metricsets, _ignore_patterns, queue, sets, counters, gauges,
                   last, now, timing, hist, budget>>

\* a round of the loop over the counters that resets the Counter it has read
MetricsSet_collect_counters_next_reset(t) ==
    /\ pc[t] = "collect_counters_next"
    /\ LET d == sets[frame[t].sid]._counters
           i == frame[t].it_i
       IN  IF Len(d) # frame[t].it_n
           THEN /\ Raise(t, "MetricsRegistry.collect", "RuntimeError")
                /\ UNCHANGED counters
           ELSE IF i > frame[t].it_n
           THEN /\ pc' = [pc EXCEPT ![t] = "collect_gauges"]
                /\ UNCHANGED <<frame, last, counters>>
           ELSE /\ frame' = [frame EXCEPT
                               ![t].it_i = i + 1,
                               ![t].reads = IF IsReal(d[i][2]) THEN @ + 1 ELSE @,
                               ![t].samples =
                                   IF IsReal(d[i][2])
                                   THEN SamplesUpdate(@, d[i][1][2], d[i][1][1], Val(d[i][2]))
                                   ELSE @]
                /\ counters' = IF IsReal(d[i][2])
                               THEN [counters EXCEPT ![d[i][2].id]._val =
                                                    counters[d[i][2].id]._initial_value]
                               ELSE counters
                /\ UNCHANGED <<pc, last>>
    /\ UNCHANGED <<_metricsets, _ignore_patterns, queue, sets, gauges,
                   now, timing, hist, budget>>

\* MetricsSet.collect: one round of "for (name, labels), c in compat.iteritems(self._counters)";
\* a dict that changed size since the iteration began raises RuntimeError
MetricsSet_collect_counters_next(t) ==
    /\ pc[t] = "collect_counters_next"
    /\ LET d == sets[frame[t].sid]._counters
           i == frame[t].it_i
       IN  IF Len(d) # frame[t].it_n
           THEN Raise(t, "MetricsRegistry.collect", "RuntimeError")
           ELSE IF i > frame[t].it_n
           THEN /\ pc' = [pc EXCEPT ![t] = "collect_gauges"]
                /\ UNCHANGED <<frame, last>>
           ELSE /\ frame' = [frame EXCEPT
                               ![t].it_i = i + 1,
                               ![t].reads = IF IsReal(d[i][2]) THEN @ + 1 ELSE @,
                               ![t].samples =
                                   IF IsReal(d[i][2])
                                   THEN SamplesUpdate(@, d[i][1][2], d[i][1][1], Val(d[i][2]))
                                   ELSE @]
                /\ UNCHANGED <<pc, last>>
    /\ UNCHANGED <<_metricsets, _ignore_patterns, queue, sets, counters, gauges,
                   now, timing, hist, budget>>

\* MetricsSet.collect: "if self._gauges:" and the start of the iteration
MetricsSet_collect_gauges(t) ==
    /\ pc[t] = "collect_gauges"
    /\ IF sets[frame[t].sid]._gauges = <<>>
       THEN /\ pc' = [pc EXCEPT ![t] = "collect_samples"]
            /\ UNCHANGED frame
       ELSE /\ pc' = [pc EXCEPT ![t] = "collect_gauges_next"]
            /\ frame' = [frame EXCEPT ![t].it_i = 1,
                                      ![t].it_n = Len(sets[frame[t].sid]._gauges)]
    /\ UNCHANGED <<_metricsets, _ignore_patterns, queue, sets, counters, gauges,
                   last, now, timing, hist, budget>>

\* MetricsSet.collect: one round of "for (name, labels), g in compat.iteritems(self._gauges)"
MetricsSet_collect_gauges_next(t) ==
    /\ pc[t] = "collect_gauges_next"
    /\ LET d == sets[frame[t].sid]._gauges
           i == frame[t].it_i
       IN  IF Len(d) # frame[t].it_n
           THEN Raise(t, "MetricsRegistry.collect", "RuntimeError")
           ELSE IF i > frame[t].it_n
           THEN /\ pc' = [pc EXCEPT ![t] = "collect_samples"]
                /\ UNCHANGED <<frame, last>>
           ELSE /\ frame' = [frame EXCEPT
                               ![t].it_i = i + 1,
                               ![t].reads = IF IsReal(d[i][2]) THEN @ + 1 ELSE @,
                               ![t].samples =
                                   IF IsReal(d[i][2])
                                   THEN SamplesUpdate(@, d[i][1][2], d[i][1][1], Val(d[i][2]))
                                   ELSE @]
                /\ UNCHANGED <<pc, last>>
    /\ UNCHANGED <<_metricsets, _ignore_patterns, queue, sets, counters, gauges,
                   now, timing, hist, budget>>

\* MetricsSet.collect: "if samples:" and the start of
\* "for labels, sample in compat.iteritems(samples)"
MetricsSet_collect_samples(t) ==
    /\ pc[t] = "collect_samples"
    /\ frame' = [frame EXCEPT ![t].y_i = 1]
    /\ pc' = [pc EXCEPT ![t] = "collect_yield"]
    /\ UNCHANGED <<_metricsets, _ignore_patterns, queue, sets, counters, gauges,
                   last, now, timing, hist, budget>>

\* MetricsSet.collect: "yield result"; when the samples are exhausted the generator
\* ends and MetricsRegistry.collect goes on to the next metricset
MetricsSet_collect_yield(t) ==
    /\ pc[t] = "collect_yield"
    /\ LET i == frame[t].y_i
           samples == frame[t].samples
       IN  IF i > Len(samples)
           THEN /\ pc' = [pc EXCEPT ![t] = "collect_next"]
                /\ frame' = [frame EXCEPT ![t].collected = Append(@, frame[t].sid)]
           ELSE LET result == CollectResult(samples[i][1], samples[i][2], frame[t].timestamp)
                IN  /\ pc' = [pc EXCEPT ![t] = "collect_queue"]
                    /\ frame' = [frame EXCEPT ![t].y_i = i + 1,
                                              ![t].yielded = Append(@, <<frame[t].sid, result>>)]
    /\ UNCHANGED <<_metricsets, _ignore_patterns, queue, sets, counters, gauges,
                   last, now, timing, hist, budget>>

\* ---------------------------------------------------------------- MetricsRegistry
\* import_string(class_path): the class it resolves to, or ImportError
import_string(class_path) ==
    IF class_path = "app.missing" THEN "ImportError" ELSE class_path

\* whether "class_obj(self)" returns an instance (or raises TypeError)
Instantiable(class_obj) == class_obj # "app.NotAClass"

\* a membership test that never finds the class_path
Registered_never(class_path) == FALSE

\* "class_path in self._metricsets"
Registered(class_path) == DictHas(_metricsets, class_path)

\* MetricsRegistry.register
MetricsRegistry_register(t, class_path) ==
    /\ pc[t] = "idle"
    /\ Invoke
    /\ frame' = [frame EXCEPT ![t] = NoFrame]
    /\ pc' = pc
    /\ IF Registered(class_path)
       THEN /\ last' = [last EXCEPT ![t] =
                          [NoCall EXCEPT !.op = "MetricsRegistry.register", !.name = class_path]]
            /\ UNCHANGED <<_metricsets, sets>>
       ELSE IF import_string(class_path) = "ImportError"
       THEN /\ last' = [last EXCEPT ![t] =
                          [NoCall EXCEPT !.op = "MetricsRegistry.register", !.name = class_path,
                                         !.logged = "warning"]]
            /\ UNCHANGED <<_metricsets, sets>>
       ELSE IF ~Instantiable(import_string(class_path))
       THEN /\ last' = [last EXCEPT ![t] =
                          [NoCall EXCEPT !.op = "MetricsRegistry.register", !.name = class_path,
                                         !.exc = "TypeError"]]
            /\ UNCHANGED <<_metricsets, sets>>
       ELSE /\ sets' = Append(sets, MetricsSet_init(import_string(class_path)))
            /\ _metricsets' = DictSet(_metricsets, class_path, Len(sets) + 1)
            /\ last' = [last EXCEPT ![t] =
                          [NoCall EXCEPT !.op = "MetricsRegistry.register", !.name = class_path]]
    /\ UNCHANGED <<_ignore_patterns, queue, counters, gauges, now, timing, hist>>

\* constants.METRICSET
METRICSET == "metricset"

\* a loop body that drops the record
MetricsRegistry_collect_queue_dropped(t) ==
    /\ pc[t] = "collect_queue"
    /\ pc' = [pc EXCEPT ![t] = "collect_yield"]
    /\ UNCHANGED <<_metricsets, _ignore_patterns, queue, sets, counters, gauges,
                   frame, last, now, timing, hist, budget>>

\* MetricsRegistry.collect: "self._queue_func(constants.METRICSET, data)" for the record
\* the generator has just yielded
MetricsRegistry_collect_queue(t) ==
    /\ pc[t] = "collect_queue"
    /\ queue' = Append(queue, <<METRICSET, frame[t].yielded[Len(frame[t].yielded)][2]>>)
    /\ pc' = [pc EXCEPT ![t] = "collect_yield"]
    /\ UNCHANGED <<_metricsets, _ignore_patterns, sets, counters, gauges,
                   frame, last, now, timing, hist, budget>>

\* MetricsRegistry.collect: the start of
\* "for name, metricset in compat.iteritems(self._metricsets)"
MetricsRegistry_collect(t) ==
    /\ pc[t] = "idle"
    /\ Invoke
    /\ frame' = [frame EXCEPT ![t] =
                   [NoFrame EXCEPT !.rc_i = 1, !.rc_n = Len(_metricsets), !.q0 = Len(queue),
                                   !.b0 = budget]]
    /\ pc' = [pc EXCEPT ![t] = "collect_next"]
    /\ UNCHANGED <<_metricsets, _ignore_patterns, queue, sets, counters, gauges,
                   last, now, timing, hist>>

\* MetricsRegistry.collect: one round of the loop over self._metricsets, up to the
\* call "metricset.collect()"; the end of the loop returns None
MetricsRegistry_collect_next(t) ==
    /\ pc[t] = "collect_next"
    /\ IF Len(_metricsets) # frame[t].rc_n
       THEN Raise(t, "MetricsRegistry.collect", "RuntimeError")
       ELSE IF frame[t].rc_i > frame[t].rc_n
       THEN Return(t, "MetricsRegistry.collect", NoRef)
       ELSE /\ frame' = [frame EXCEPT ![t].rc_i = @ + 1,
                                      ![t].sid = _metricsets[frame[t].rc_i][2],
                                      ![t].hooks = 0, ![t].stamps = 0,
                                      ![t].reads = 0, ![t].hooked = None]
            /\ pc' = [pc EXCEPT ![t] = "collect_before"]
            /\ UNCHANGED last
    /\ UNCHANGED <<_metricsets, _ignore_patterns, queue, sets, counters, gauges,
                   now, timing, hist, budget>>

\* an assignment to MetricsRegistry._ignore_patterns after the construction
MetricsRegistry_set_ignore_patterns(patterns) ==
    /\ patterns # _ignore_patterns
    /\ _ignore_patterns' = patterns
    /\ UNCHANGED <<_metricsets, queue, sets, counters, gauges, pc, frame, last,
                   now, timing, hist, budget>>

\* time.time() moves on
Tick ==
    /\ now < MaxTime
    /\ now' = now + 1
    /\ UNCHANGED <<_metricsets, _ignore_patterns, queue, sets, counters, gauges,
                   pc, frame, last, timing, hist, budget>>

\* ---------------------------------------------------------------- collect timer
\* IntervalTimer(self.collect, timeout, ...) after start(): it calls the function every
\* timeout seconds on its own thread until it is cancelled
IntervalTimer_start(timeout) == [interval |-> timeout, state |-> "started"]

\* IntervalTimer.cancel: later firings are prevented
IntervalTimer_cancel(tm) == [tm EXCEPT !.state = "cancelled"]

\* a timer of the heap may call its function
IntervalTimer_due == \E i \in DOMAIN timers : timers[i].state = "started"

\* a constructor that starts the timer whatever the process is
StartsInConstructor_any(collect_interval, is_master) == collect_interval # 0

\* MetricsRegistry.__init__: "if self._collect_interval:", "if not is_master_process():"
StartsInConstructor(collect_interval, is_master) == collect_interval # 0 /\ ~is_master

\* MetricsRegistry.__init__: "if self._collect_interval:", "else:" of the master test
DefersToPostfork(collect_interval, is_master) == collect_interval # 0 /\ is_master

\* MetricsRegistry.__init__: the timer part of the state it leaves
MetricsRegistry_init(collect_interval, is_master) ==
    /\ _collect_interval = collect_interval
    /\ master = is_master
    /\ stopped = FALSE
    /\ IF StartsInConstructor(collect_interval, is_master)
       THEN /\ timers = <<IntervalTimer_start(collect_interval)>>
            /\ _collect_timer = 1
            /\ postfork = "none"
       ELSE /\ timers = <<>>
            /\ _collect_timer = 0
            /\ postfork = IF DefersToPostfork(collect_interval, is_master)
                          THEN "registered" ELSE "none"

\* MetricsRegistry._start_collect_timer(), run by the hook given to compat.postfork
\* once the process has forked
MetricsRegistry_start_collect_timer ==
    /\ postfork = "registered"
    /\ postfork' = "ran"
    /\ timers' = Append(timers, IntervalTimer_start(_collect_interval))
    /\ _collect_timer' = Len(timers) + 1
    /\ UNCHANGED <<_metricsets, _ignore_patterns, queue, sets, counters, gauges,
                   pc, frame, last, now, hist, budget,
                   _collect_interval, master, stopped>>

\* MetricsRegistry._stop_collect_timer
MetricsRegistry_stop_collect_timer(t) ==
    /\ pc[t] = "idle"
    /\ Invoke
    /\ timers' = IF _collect_timer # 0
                 THEN [timers EXCEPT ![_collect_timer] = IntervalTimer_cancel(@)]
                 ELSE timers
    /\ stopped' = TRUE
    /\ ReturnNow(t, "MetricsRegistry._stop_collect_timer", NoRef, NoRef, None)
    /\ UNCHANGED <<_metricsets, _ignore_patterns, queue, sets, counters, gauges,
                   now, hist, _collect_interval, _collect_timer, postfork, master>>

\* IntervalTimer.run: a timer that is not cancelled calls MetricsRegistry.collect
IntervalTimer_run(t) ==
    /\ IntervalTimer_due
    /\ MetricsRegistry_collect(t)

\* ------------------------------------------------- a Counter shared by threads
CounterStep(t) ==
    \/ \E c \in DOMAIN counters, d \in Deltas : Counter_inc(t, c, d)
    \/ Counter_inc_load(t)
    \/ Counter_inc_store(t)
    \/ Counter_inc_exit(t)
    \/ \E c \in DOMAIN counters, d \in Deltas : Counter_dec(t, c, d)
    \/ Counter_dec_load(t)
    \/ Counter_dec_store(t)
    \/ Counter_dec_exit(t)
    \/ \E c \in DOMAIN counters : Counter_reset(t, c)
    \/ Counter_reset_store(t)
    \/ Counter_reset_exit(t)

InitCounter ==
    /\ _metricsets = <<>>
    /\ _ignore_patterns = <<>>
    /\ queue = <<>>
    /\ sets = <<>>
    /\ \E v0 \in InitialValues :
          /\ counters = <<Counter_init("c", v0)>>
          /\ hist = <<NewHist(v0)>>
    /\ gauges = <<>>
    /\ pc = [t \in Threads |-> "idle"]
    /\ frame = [t \in Threads |-> NoFrame]
    /\ last = [t \in Threads |-> NoCall]
    /\ now = 0
    /\ MetricsRegistry_init(0, FALSE)
    /\ budget = MaxOps

NextCounter == \E t \in Threads : CounterStep(t)

SpecCounter == InitCounter /\ [][NextCounter]_vars

\* ------------------------------------- threads creating metrics in one MetricsSet
AccessorStep(t) ==
    \/ \E s \in DOMAIN sets, name \in Names, labels \in LabelInputs :
          MetricsSet_counter(t, s, name, labels)
    \/ MetricsSet_counter_lock(t)
    \/ MetricsSet_counter_check(t)
    \/ MetricsSet_counter_store(t)
    \/ MetricsSet_counter_return(t)
    \/ \E s \in DOMAIN sets, name \in Names, labels \in LabelInputs :
          MetricsSet_gauge(t, s, name, labels)
    \/ MetricsSet_gauge_lock(t)
    \/ MetricsSet_gauge_check(t)
    \/ MetricsSet_gauge_store(t)
    \/ MetricsSet_gauge_return(t)

NoopStep(t) ==
    \/ \E d \in Deltas : NoopMetric_inc(t, d)
    \/ \E d \in Deltas : NoopMetric_dec(t, d)
    \/ NoopMetric_reset(t)
    \/ \E v \in GaugeValues : NoopMetric_val_set(t, v)
    \/ ReadVal(t, noop_metric)

InitSet ==
    /\ _metricsets = << <<"app.Metrics", 1>> >>
    /\ _ignore_patterns \in IgnoreConfigs
    /\ queue = <<>>
    /\ sets = <<MetricsSet_init("app.Metrics")>>
    /\ counters = <<>>
    /\ hist = <<>>
    /\ gauges = <<>>
    /\ pc = [t \in Threads |-> "idle"]
    /\ frame = [t \in Threads |-> NoFrame]
    /\ last = [t \in Threads |-> NoCall]
    /\ now = 0
    /\ MetricsRegistry_init(0, FALSE)
    /\ budget = MaxCalls

NextSet == \E t \in Threads : AccessorStep(t) \/ NoopStep(t)

SpecSet == InitSet /\ [][NextSet]_vars

\* ------------------------- a registry used by an application thread and a collector
\* label mappings used with a registry
RegistryLabelInputs == { <<>>, << <<"env", Int1>> >> }

CollectStep(t) ==
    \/ MetricsRegistry_collect(t)
    \/ MetricsRegistry_collect_next(t)
    \/ MetricsSet_collect_before(t)
    \/ MetricsSet_collect_timestamp(t)
    \/ MetricsSet_collect_counters(t)
    \/ MetricsSet_collect_counters_next(t)
    \/ MetricsSet_collect_gauges(t)
    \/ MetricsSet_collect_gauges_next(t)
    \/ MetricsSet_collect_samples(t)
    \/ MetricsSet_collect_yield(t)
    \/ MetricsRegistry_collect_queue(t)

RegistryAccessorStep(t) ==
    \/ \E s \in DOMAIN sets, name \in Names, labels \in RegistryLabelInputs :
          MetricsSet_counter(t, s, name, labels)
    \/ MetricsSet_counter_lock(t)
    \/ MetricsSet_counter_check(t)
    \/ MetricsSet_counter_store(t)
    \/ MetricsSet_counter_return(t)
    \/ \E s \in DOMAIN sets, name \in Names, labels \in RegistryLabelInputs :
          MetricsSet_gauge(t, s, name, labels)
    \/ MetricsSet_gauge_lock(t)
    \/ MetricsSet_gauge_check(t)
    \/ MetricsSet_gauge_store(t)
    \/ MetricsSet_gauge_return(t)

WriteStep(t) ==
    \/ \E c \in DOMAIN counters : Counter_inc(t, c, 1)
    \/ Counter_inc_load(t)
    \/ Counter_inc_store(t)
    \/ Counter_inc_exit(t)
    \/ \E g \in DOMAIN gauges, v \in GaugeValues : Gauge_val_set(t, g, v)

InitRegistry ==
    /\ _metricsets = <<>>
    /\ _ignore_patterns \in IgnoreConfigs
    /\ queue = <<>>
    /\ sets = <<>>
    /\ counters = <<>>
    /\ hist = <<>>
    /\ gauges = <<>>
    /\ pc = [t \in Threads |-> "idle"]
    /\ frame = [t \in Threads |-> NoFrame]
    /\ last = [t \in Threads |-> NoCall]
    /\ now = 0
    /\ MetricsRegistry_init(0, FALSE)
    /\ budget = MaxSteps

\* the application thread t1 and the collector t2 take turns: a call runs to its end
\* before the other thread starts one
NextRegistry ==
    \/ /\ pc["t2"] = "idle"
       /\ \/ \E class_path \in ClassPaths : MetricsRegistry_register("t1", class_path)
          \/ RegistryAccessorStep("t1")
          \/ WriteStep("t1")
    \/ /\ pc["t1"] = "idle"
       /\ CollectStep("t2")

SpecRegistry == InitRegistry /\ [][NextRegistry]_vars

\* ------------------------------ a registry with a collect timer, across a fork
\* calls and timer firings of a run
MaxEvents == 5

CollectIntervals == {0, 30}

InitTimer ==
    /\ _metricsets = <<>>
    /\ _ignore_patterns = <<>>
    /\ queue = <<>>
    /\ sets = <<>>
    /\ counters = <<>>
    /\ hist = <<>>
    /\ gauges = <<>>
    /\ pc = [t \in Threads |-> "idle"]
    /\ frame = [t \in Threads |-> NoFrame]
    /\ last = [t \in Threads |-> NoCall]
    /\ now = 0
    /\ \E collect_interval \in CollectIntervals, is_master \in BOOLEAN :
          MetricsRegistry_init(collect_interval, is_master)
    /\ budget = MaxEvents

TimerAppStep(t) ==
    \/ MetricsRegistry_register(t, "app.Metrics")
    \/ \E s \in DOMAIN sets : MetricsSet_counter(t, s, "requests.count", <<>>)
    \/ MetricsSet_counter_lock(t)
    \/ MetricsSet_counter_check(t)
    \/ MetricsSet_counter_store(t)
    \/ MetricsSet_counter_return(t)
    \/ \E c \in DOMAIN counters : Counter_inc(t, c, 1)
    \/ Counter_inc_load(t)
    \/ Counter_inc_store(t)
    \/ Counter_inc_exit(t)
    \/ \E c \in DOMAIN counters : ReadVal(t, CounterRef(c))

TimerCollectStep(t) ==
    \/ IntervalTimer_run(t)
    \/ MetricsRegistry_collect_next(t)
    \/ MetricsSet_collect_before(t)
    \/ MetricsSet_collect_timestamp(t)
    \/ MetricsSet_collect_counters(t)
    \/ MetricsSet_collect_counters_next(t)
    \/ MetricsSet_collect_gauges(t)
    \/ MetricsSet_collect_samples(t)
    \/ MetricsSet_collect_yield(t)
    \/ MetricsRegistry_collect_queue(t)

\* the application thread t1 and the timer thread t2 take turns; the fork and the stop
\* come at any time
NextTimer ==
    \/ /\ pc["t2"] = "idle"
       /\ TimerAppStep("t1")
    \/ /\ pc["t1"] = "idle"
       /\ TimerCollectStep("t2")
    \/ MetricsRegistry_stop_collect_timer("t1")
    \/ MetricsRegistry_start_collect_timer

SpecTimer == InitTimer /\ [][NextTimer]_vars

\* ---------------------- threads creating metrics while the ignore patterns change
PatternsAccessorStep(t) ==
    \/ \E s \in DOMAIN sets, name \in Names, labels \in RegistryLabelInputs :
          MetricsSet_counter(t, s, name, labels)
    \/ MetricsSet_counter_lock(t)
    \/ MetricsSet_counter_check(t)
    \/ MetricsSet_counter_store(t)
    \/ MetricsSet_counter_return(t)
    \/ \E s \in DOMAIN sets, name \in Names, labels \in RegistryLabelInputs :
          MetricsSet_gauge(t, s, name, labels)
    \/ MetricsSet_gauge_lock(t)
    \/ MetricsSet_gauge_check(t)
    \/ MetricsSet_gauge_store(t)
    \/ MetricsSet_gauge_return(t)

NextPatterns ==
    \/ \E t \in Threads : PatternsAccessorStep(t)
    \/ \E patterns \in IgnoreConfigs : MetricsRegistry_set_ignore_patterns(patterns)

SpecPatterns == InitSet /\ [][NextPatterns]_vars

\* ------------------- a registry of sets with a before_collect hook, and a clock
HookClassPaths == {"app.Metrics", "app.Hooked"}

HookAppStep(t) ==
    \/ \E class_path \in HookClassPaths : MetricsRegistry_register(t, class_path)
    \/ \E s \in DOMAIN sets, labels \in RegistryLabelInputs :
          MetricsSet_counter(t, s, "cpu.usage", labels)
    \/ MetricsSet_counter_lock(t)
    \/ MetricsSet_counter_check(t)
    \/ MetricsSet_counter_store(t)
    \/ MetricsSet_counter_return(t)

InitHook ==
    /\ _metricsets = <<>>
    /\ _ignore_patterns = <<>>
    /\ queue = <<>>
    /\ sets = <<>>
    /\ counters = <<>>
    /\ hist = <<>>
    /\ gauges = <<>>
    /\ pc = [t \in Threads |-> "idle"]
    /\ frame = [t \in Threads |-> NoFrame]
    /\ last = [t \in Threads |-> NoCall]
    /\ now = 0
    /\ MetricsRegistry_init(0, FALSE)
    /\ budget = MaxSteps

NextHook ==
    \/ /\ pc["t2"] = "idle"
       /\ HookAppStep("t1")
    \/ /\ pc["t1"] = "idle"
       /\ CollectStep("t2")
    \/ Tick

SpecHook == InitHook /\ [][NextHook]_vars

\* ------------- an application thread creating metrics while the collector runs
ConcurrentAccessorStep(t) ==
    \/ \E s \in DOMAIN sets, name \in Names : MetricsSet_counter(t, s, name, <<>>)
    \/ MetricsSet_counter_lock(t)
    \/ MetricsSet_counter_check(t)
    \/ MetricsSet_counter_store(t)
    \/ MetricsSet_counter_return(t)
    \/ \E s \in DOMAIN sets, name \in Names : MetricsSet_gauge(t, s, name, <<>>)
    \/ MetricsSet_gauge_lock(t)
    \/ MetricsSet_gauge_check(t)
    \/ MetricsSet_gauge_store(t)
    \/ MetricsSet_gauge_return(t)

\* the steps of the application thread t1 and of the collector t2 interleave freely,
\* except that a MetricsSet is registered only between two collects
NextConcurrent ==
    \/ /\ pc["t2"] = "idle"
       /\ MetricsRegistry_register("t1", "app.Metrics")
    \/ ConcurrentAccessorStep("t1")
    \/ CollectStep("t2")

SpecConcurrent == InitRegistry /\ [][NextConcurrent]_vars

\* ------------------ one MetricsSet written by the application and collected in turn
NextSnapshot ==
    \/ /\ pc["t2"] = "idle"
       /\ \/ MetricsRegistry_register("t1", "app.Metrics")
          \/ RegistryAccessorStep("t1")
          \/ WriteStep("t1")
    \/ /\ pc["t1"] = "idle"
       /\ CollectStep("t2")

SpecSnapshot == InitRegistry /\ [][NextSnapshot]_vars

\* ================================================================= claims

\* a thread is inside a call on Counter c
Busy(c) == \E t \in Threads : pc[t] # "idle" /\ frame[t].self = CounterRef(c)

\* C1: no update of a Counter is lost: whenever no inc, dec or reset call is
\* in progress on a counter that was never reset, its value is the initial
\* value plus the deltas of all inc calls minus the deltas of all dec calls,
\* whatever the interleaving of the calling threads.
C1_NoLostUpdate ==
    \A c \in DOMAIN counters :
        (~Busy(c) /\ hist[c].reset = 0)
            => counters[c]._val = hist[c].v0 + hist[c].inc - hist[c].dec

\* two threads have completed inc/dec calls on the same never-reset counter
C1_Witness ==
    \E c \in DOMAIN counters :
        /\ ~Busy(c) /\ hist[c].reset = 0
        /\ hist[c].v0 # 0 /\ hist[c].inc >= 2 /\ hist[c].dec >= 1
        /\ \E t1, t2 \in Threads :
              /\ t1 # t2
              /\ last[t1].op = "Counter.inc" /\ last[t1].self = CounterRef(c)
              /\ last[t2].op \in {"Counter.inc", "Counter.dec"} /\ last[t2].self = CounterRef(c)

\* C7: reset() restores the constructor's initial value: a counter whose last
\* write was a reset holds exactly the initial value it was constructed with,
\* and the stored initial value never changes.
C7_ResetRestoresInitial ==
    \A c \in DOMAIN counters :
        /\ counters[c]._initial_value = hist[c].v0
        /\ hist[c].lastWrite = "reset" => counters[c]._val = hist[c].v0

\* a counter constructed with a non-zero initial value was changed, then reset,
\* and the reset call has returned
C7_Witness ==
    \E c \in DOMAIN counters :
        /\ hist[c].v0 # 0
        /\ hist[c].inc + hist[c].dec > 0
        /\ hist[c].lastWrite = "reset"
        /\ ~Busy(c)
        /\ \E t \in Threads : last[t].op = "Counter.reset" /\ last[t].self = CounterRef(c)

\* the same key/value pairs, in any argument order
SameItems(L1, L2) ==
    /\ Len(L1) = Len(L2)
    /\ {L1[i] : i \in DOMAIN L1} = {L2[i] : i \in DOMAIN L2}

Accessors == {"MetricsSet.counter", "MetricsSet.gauge"}

\* C2: two counter() calls (or two gauge() calls) on the same MetricsSet with
\* the same name and label mappings that hold the same key/value pairs in any
\* argument order return the identical stored instance.
C2_PermutedLabelsSameInstance ==
    \A t1, t2 \in Threads :
        ( /\ last[t1].op \in Accessors
          /\ last[t1].op = last[t2].op
          /\ last[t1].self = last[t2].self
          /\ last[t1].name = last[t2].name
          /\ SameItems(last[t1].labels, last[t2].labels) )
            => last[t1].ret = last[t2].ret

\* two completed counter() calls whose labels are the same pairs in a different
\* argument order
C2_Witness ==
    \E t1, t2 \in Threads :
        /\ last[t1].op = "MetricsSet.counter" /\ last[t2].op = "MetricsSet.counter"
        /\ last[t1].self = last[t2].self
        /\ last[t1].name = last[t2].name
        /\ last[t1].labels # last[t2].labels
        /\ SameItems(last[t1].labels, last[t2].labels)
        /\ last[t1].ret.kind = "Counter"

\* every entry of the counter and gauge maps is still there, with the same
\* instance, after the step
EntriesKept ==
    \A s \in DOMAIN sets :
        /\ \A i \in DOMAIN sets[s]._counters :
              /\ i \in DOMAIN sets'[s]._counters
              /\ sets'[s]._counters[i] = sets[s]._counters[i]
        /\ \A i \in DOMAIN sets[s]._gauges :
              /\ i \in DOMAIN sets'[s]._gauges
              /\ sets'[s]._gauges[i] = sets[s]._gauges[i]

\* the instances stored in a dict
DictValues(d) == {d[i][2] : i \in DOMAIN d}

\* callers of the same accessor with the same (name, labelKey) got the same
\* instance, and when no accessor call is in progress exactly one Counter
\* (Gauge) was created per key that stores one
OneInstancePerKey ==
    /\ \A t1, t2 \in Threads :
          ( /\ last[t1].op \in Accessors
            /\ last[t1].op = last[t2].op
            /\ last[t1].self = last[t2].self
            /\ last[t1].key = last[t2].key )
              => last[t1].ret = last[t2].ret
    /\ (\A t \in Threads : pc[t] = "idle") =>
          \A s \in DOMAIN sets :
              /\ Len(counters) =
                    Cardinality({i \in DOMAIN sets[s]._counters :
                                    sets[s]._counters[i][2].kind = "Counter"})
              /\ Len(gauges) =
                    Cardinality({i \in DOMAIN sets[s]._gauges :
                                    sets[s]._gauges[i][2].kind = "Gauge"})

\* C3: under every interleaving of concurrent counter()/gauge() calls exactly
\* one instance is created per (name, labelKey), every caller of that key
\* receives it, and an instance once stored under a key is never replaced.
C3_OneInstancePerKey == []OneInstancePerKey /\ [][EntriesKept]_vars

\* two threads are inside counter() for the same key at the same time: one has
\* found the key absent and stored a new Counter, the other waits for the lock
C3_Witness ==
    \E t1, t2 \in Threads :
        /\ pc[t1] = "counter_return" /\ pc[t2] = "counter_lock"
        /\ frame[t1].self = frame[t2].self
        /\ frame[t1].key = frame[t2].key
        /\ frame[t1].new.kind = "Counter"

\* the name matches at least one configured ignore pattern
MatchesIgnorePattern(name) ==
    \E i \in DOMAIN _ignore_patterns : name \in _ignore_patterns[i]

\* C4: counter() and gauge() return the no-op sink for every name that matches
\* a configured ignore pattern, and the sink's val is None whatever inc, dec,
\* reset and value-set calls were made on it.
C4_IgnoredNameGetsNoop ==
    \A t \in Threads :
        /\ (last[t].op \in Accessors /\ MatchesIgnorePattern(last[t].name))
              => (last[t].ret = noop_metric /\ Val(last[t].ret) = None)
        /\ (last[t].op = "val" /\ last[t].self = noop_metric)
              => last[t].value = None

\* a counter() call with an ignored name has returned and its key is stored,
\* and another thread has since written to the no-op sink or read its val
C4_Witness ==
    \E t1, t2 \in Threads :
        /\ last[t1].op = "MetricsSet.counter"
        /\ MatchesIgnorePattern(last[t1].name)
        /\ DictHas(sets[last[t1].self.id]._counters, last[t1].key)
        /\ last[t2].op \in {"NoopMetric.inc", "NoopMetric.dec", "NoopMetric.reset",
                            "NoopMetric.val=", "val"}
        /\ last[t2].self = noop_metric

\* the entries of a dict that hold a real metric
RealEntries(d) == {i \in DOMAIN d : d[i][2] # noop_metric}

\* the labelKeys under which MetricsSet s stores at least one real metric
LabelKeysOf(s) ==
    {sets[s]._counters[i][1][2] : i \in RealEntries(sets[s]._counters)}
        \cup {sets[s]._gauges[i][1][2] : i \in RealEntries(sets[s]._gauges)}

\* the names of the real metrics MetricsSet s stores under labelKey L
NamesUnder(s, L) ==
    {sets[s]._counters[i][1][1] :
        i \in {j \in RealEntries(sets[s]._counters) : sets[s]._counters[j][1][2] = L}}
    \cup
    {sets[s]._gauges[i][1][1] :
        i \in {j \in RealEntries(sets[s]._gauges) : sets[s]._gauges[j][1][2] = L}}

\* the current values of the real metrics MetricsSet s stores under (name, L)
ValuesOf(s, name, L) ==
    {Val(sets[s]._counters[i][2]) :
        i \in {j \in RealEntries(sets[s]._counters) : sets[s]._counters[j][1] = <<name, L>>}}
    \cup
    {Val(sets[s]._gauges[i][2]) :
        i \in {j \in RealEntries(sets[s]._gauges) : sets[s]._gauges[j][1] = <<name, L>>}}

\* record r is the record of labelKey L: no tags for the empty labelKey, else
\* the tags are the pairs of L
RecordIsFor(r, L) ==
    IF L = <<>>
    THEN "tags" \notin DOMAIN r
    ELSE /\ "tags" \in DOMAIN r
         /\ DictKeys(r.tags) = {L[i][1] : i \in DOMAIN L}
         /\ \A i \in DOMAIN L : DictGet(r.tags, L[i][1]) = L[i][2]

\* the samples of record r are the real metrics of MetricsSet s under labelKey L,
\* each with a current value
RecordHolds(r, s, L) ==
    /\ Len(r.samples) = Cardinality(NamesUnder(s, L))
    /\ DictKeys(r.samples) = NamesUnder(s, L)
    /\ \A name \in NamesUnder(s, L) : DictGet(r.samples, name).value \in ValuesOf(s, name, L)

\* the records the collect() of MetricsSet s has yielded in the cycle of thread t
YieldedBy(t, s) ==
    LET ys == SelectSeq(frame[t].yielded, LAMBDA y : y[1] = s)
    IN  [i \in DOMAIN ys |-> ys[i][2]]

RECURSIVE RecordCount(_)
RecordCount(n) ==
    IF n = 0 THEN 0
    ELSE RecordCount(n - 1) + Cardinality(LabelKeysOf(_metricsets[n][2]))

\* the calls queue_func has received in the collect cycle of thread t
QueuedBy(t) == SubSeq(queue, frame[t].q0 + 1, Len(queue))

\* C6: when the loop of MetricsRegistry.collect() ends, queue_func has been
\* called in this cycle exactly once per record yielded by the collect() of the
\* registered MetricsSets, each time with the kind "metricset" and the record
\* as payload, and not otherwise: one event per registered set and labelKey
\* with real metrics, holding that labelKey's samples.
C6_EveryRecordQueuedOnce ==
    \A t \in Threads :
        (pc[t] = "collect_next" /\ frame[t].rc_i > frame[t].rc_n
                                /\ Len(_metricsets) = frame[t].rc_n) =>
            LET Q == QueuedBy(t)
            IN  /\ Len(Q) = Len(frame[t].yielded)
                /\ \A i \in DOMAIN Q :
                      Q[i] = <<"metricset", frame[t].yielded[i][2]>>
                /\ Len(Q) = RecordCount(Len(_metricsets))
                /\ \A k \in DOMAIN _metricsets :
                      \A L \in LabelKeysOf(_metricsets[k][2]) :
                          \E i \in DOMAIN Q :
                              /\ RecordIsFor(Q[i][2], L)
                              /\ RecordHolds(Q[i][2], _metricsets[k][2], L)

\* the loop of MetricsRegistry.collect() has ended on one registered set whose
\* only metric is an unlabelled counter incremented twice or more: one event,
\* without tags
C6_Witness ==
    \E t \in Threads :
        /\ pc[t] = "collect_next" /\ frame[t].rc_i > frame[t].rc_n
        /\ Len(_metricsets) = 1
        /\ Len(sets[_metricsets[1][2]]._counters) = 1
        /\ sets[_metricsets[1][2]]._gauges = <<>>
        /\ sets[_metricsets[1][2]]._counters[1][1][2] = <<>>
        /\ Val(sets[_metricsets[1][2]]._counters[1][2]) \in {Num(2), Num(3)}
        /\ Len(QueuedBy(t)) = 1
        /\ "tags" \notin DOMAIN QueuedBy(t)[1][2]

\* thread t makes a whole register() call in this step
RegisterStep(t) ==
    /\ pc[t] = "idle" /\ pc'[t] = "idle"
    /\ budget' = budget - 1
    /\ last'[t].op = "MetricsRegistry.register"

\* every identifier is registered once, and every MetricsSet constructed is registered
OneSetPerIdentifier ==
    /\ \A i, j \in DOMAIN _metricsets : _metricsets[i][1] = _metricsets[j][1] => i = j
    /\ \A i, j \in DOMAIN _metricsets : _metricsets[i][2] = _metricsets[j][2] => i = j
    /\ Len(sets) = Len(_metricsets)

\* a step keeps every registered instance, and a register() call for a registered
\* identifier constructs nothing and changes no MetricsSet
RegistrationKept ==
    /\ \A i \in DOMAIN _metricsets :
          i \in DOMAIN _metricsets' /\ _metricsets'[i] = _metricsets[i]
    /\ \A t \in Threads :
          (RegisterStep(t) /\ DictHas(_metricsets, last'[t].name))
              => (_metricsets' = _metricsets /\ sets' = sets)

\* C8: registration is idempotent: the registry holds at most one MetricsSet
\* per identifier, and register() for a registered identifier constructs no
\* instance and leaves the existing one, with its counters and gauges, in place.
C8_RegisterIdempotent == []OneSetPerIdentifier /\ [][RegistrationKept]_vars

\* register() has just returned for an identifier whose MetricsSet was
\* registered before and already stores a metric
C8_Witness ==
    \E t \in Threads :
        /\ last[t].op = "MetricsRegistry.register"
        /\ DictHas(_metricsets, last[t].name)
        /\ sets[DictGet(_metricsets, last[t].name)]._counters # <<>>

\* C9: a register() call that fails, because the identifier does not resolve
\* or the resolved type cannot be instantiated, raises nothing and leaves the
\* registered MetricsSets as they were.
C9_RegisterFailureContained ==
    [][\A t \in Threads :
          (RegisterStep(t) /\ ~DictHas(_metricsets', last'[t].name))
              => (last'[t].exc = "none" /\ _metricsets' = _metricsets)]_vars

\* C10: a MetricsRegistry.collect() cycle raises nothing, and has collected
\* every MetricsSet that was registered when it began and whose own collect()
\* does not raise, whatever another MetricsSet's collect() did.
C10_CollectIsolated ==
    \A t \in Threads :
        last[t].op = "MetricsRegistry.collect" =>
            /\ last[t].exc = "none"
            /\ \A k \in 1..last[t].rc_n :
                  before_collect(sets[_metricsets[k][2]].cls) = "pass"
                      => \E i \in DOMAIN last[t].collected :
                            last[t].collected[i] = _metricsets[k][2]

\* ---------------------------------------------------------------- C11, C12
\* the timer thread starts a call of MetricsRegistry.collect in this step
FiringStarts == pc["t2"] = "idle" /\ pc'["t2"] = "collect_next"

\* C11: once a call of _stop_collect_timer has returned, the timer starts no further
\* collect(), whether the timer was started in the constructor or is started by the
\* post-fork hook after the stop
C11_NoFiringAfterStop == [][stopped => ~FiringStarts]_vars

\* no timer exists and no collect has been started by one
NoAutomaticCollect ==
    /\ timers = <<>>
    /\ _collect_timer = 0
    /\ pc["t2"] = "idle"
    /\ last["t2"] = NoCall
    /\ queue = <<>>

\* C12: with a positive interval, a registry constructed in the pre-fork master has no
\* timer and no automatic collect until the post-fork hook has run, and has a timer once
\* it has; a registry constructed in any other process has its timer from construction
\* on; with interval 0 no timer is ever started
C12_TimerStartFollowsProcessRole ==
    /\ _collect_interval = 0 => NoAutomaticCollect
    /\ (_collect_interval # 0 /\ master /\ postfork # "ran") => NoAutomaticCollect
    /\ (_collect_interval # 0 /\ master /\ postfork = "ran") => _collect_timer # 0
    /\ (_collect_interval # 0 /\ ~master) =>
          /\ _collect_timer = 1
          /\ timers # <<>>
          /\ timers[1].interval = _collect_interval
          /\ postfork = "none"

\* a registry of the master whose timer, started by the post-fork hook, has run a collect
C12_Witness ==
    /\ _collect_interval # 0
    /\ master
    /\ postfork = "ran"
    /\ last["t2"].op = "MetricsRegistry.collect"
    /\ queue # <<>>

\* ---------------------------------------------------------------- C13
\* the instance an accessor call returned is the one stored under its key
ReturnedIsStored ==
    \A t \in Threads :
        /\ last[t].op = "MetricsSet.counter" =>
              last[t].ret = DictGet(sets[last[t].self.id]._counters, last[t].key)
        /\ last[t].op = "MetricsSet.gauge" =>
              last[t].ret = DictGet(sets[last[t].self.id]._gauges, last[t].key)

\* a step that chooses the instance for an absent key chooses the no-op sink exactly
\* when the name matches the ignore patterns of that moment
DecidedAtCreation ==
    \A t \in Threads :
        ( /\ pc[t] \in {"counter_check", "gauge_check"}
          /\ pc'[t] \in {"counter_store", "gauge_store"} )
            => (frame'[t].new = noop_metric <=> MatchesIgnorePattern(frame[t].name))

\* C13: whether a (name, labelKey) holds a real metric or the no-op sink is decided when
\* the key is first created, from the ignore patterns of that moment; every later call
\* for the key returns the stored instance, whatever the ignore patterns have become
C13_KindFixedAtCreation ==
    []ReturnedIsStored /\ [][EntriesKept /\ DecidedAtCreation]_vars

\* a call has returned the stored instance of a key whose kind is no longer the one the
\* current ignore patterns would choose
C13_Witness ==
    \E t \in Threads :
        /\ last[t].op \in Accessors
        /\ pc[t] = "idle"
        /\ last[t].ret = noop_metric <=> ~MatchesIgnorePattern(last[t].name)
        /\ \E u \in Threads \ {t} :
              /\ last[u].op = last[t].op
              /\ last[u].key = last[t].key
              /\ last[u].ret = last[t].ret

\* ---------------------------------------------------------------- C14, C15
\* the positions of MetricsSet.collect after the call of before_collect
SetStages ==
    {"collect_timestamp", "collect_counters", "collect_counters_next", "collect_gauges",
     "collect_gauges_next", "collect_samples", "collect_yield", "collect_queue"}

\* thread t is in, or has just exhausted, the collect() of a MetricsSet, past the
\* capture of the timestamp
Stamped(t) ==
    \/ pc[t] \in SetStages \ {"collect_timestamp"}
    \/ pc[t] = "collect_next" /\ frame[t].sid # 0

\* the timestamp is captured once per MetricsSet.collect() and every record the call
\* has yielded carries it
StampedOnce(t) ==
    /\ pc[t] = "collect_before" => frame[t].stamps = 0
    /\ Stamped(t) =>
          /\ frame[t].stamps = 1
          /\ \A i \in DOMAIN frame[t].yielded :
                frame[t].yielded[i][1] = frame[t].sid
                    => frame[t].yielded[i][2].timestamp = frame[t].timestamp

\* C14: in every MetricsSet.collect() the timestamp is captured exactly once and before
\* before_collect() is invoked, and every record of the call carries that timestamp
C14_TimestampBeforeHook ==
    \A t \in Threads :
        /\ StampedOnce(t)
        /\ frame[t].hooks > 0 => frame[t].stamps = 1

\* C14, amended: in every MetricsSet.collect() the timestamp is captured exactly once,
\* after before_collect() has returned, and every record of the call carries that
\* timestamp
C14_TimestampOnceAfterHook ==
    \A t \in Threads :
        /\ StampedOnce(t)
        /\ pc[t] = "collect_timestamp" => frame[t].stamps = 0
        /\ frame[t].stamps > 0 => frame[t].hooks = 1

\* a collect() has yielded two records after the clock moved on, before the capture of
\* the timestamp and after it
C14_Witness ==
    \E t \in Threads :
        /\ pc[t] = "collect_queue"
        /\ Len(YieldedBy(t, frame[t].sid)) >= 2
        /\ frame[t].timestamp > 0
        /\ now > frame[t].timestamp

\* C15: in every MetricsSet.collect() before_collect() runs exactly once and has returned
\* before any counter or gauge value is read, so the value it writes to a gauge, which
\* it may have created, is in the record of the same collect()
C15_HookOnceBeforeReads ==
    \A t \in Threads :
        /\ pc[t] = "collect_before" => (frame[t].hooks = 0 /\ frame[t].reads = 0)
        /\ (pc[t] \in SetStages \/ (pc[t] = "collect_next" /\ frame[t].sid # 0))
              => frame[t].hooks = 1
        /\ frame[t].reads > 0 => frame[t].hooks = 1
        /\ (pc[t] = "collect_next" /\ frame[t].sid # 0 /\ frame[t].hooked # None) =>
              \E i \in DOMAIN YieldedBy(t, frame[t].sid) :
                  LET r == YieldedBy(t, frame[t].sid)[i]
                  IN  /\ "tags" \notin DOMAIN r
                      /\ DictHas(r.samples, HookGauge)
                      /\ DictGet(r.samples, HookGauge).value = frame[t].hooked

\* a collect() is exhausted on a MetricsSet whose before_collect created a gauge and
\* wrote to it, beside a counter the application created
C15_Witness ==
    \E t \in Threads :
        /\ pc[t] = "collect_next" /\ frame[t].sid # 0
        /\ frame[t].hooked # None
        /\ sets[frame[t].sid]._counters # <<>>
        /\ Len(gauges) >= 1
        /\ queue # <<>>

\* ---------------------------------------------------------------- C16
\* the mutators of a metric that counter() hands out
Mutators ==
    {"Counter.inc", "Counter.dec", "Counter.reset",
     "NoopMetric.inc", "NoopMetric.dec", "NoopMetric.reset"}

\* C16: inc(), dec() and reset() on a metric that MetricsSet.counter returned, a Counter
\* or the no-op sink, return that metric itself, so that calls can be chained
C16_MutatorsReturnTheMetric ==
    \A t, u \in Threads :
        ( /\ last[u].op = "MetricsSet.counter"
          /\ last[t].op \in Mutators
          /\ last[t].self = last[u].ret )
            => last[t].ret = last[t].self

\* ---------------------------------------------------------------- C17
\* the record thread t has just yielded, and the labelKey it was built from
JustYielded(t) == frame[t].yielded[Len(frame[t].yielded)][2]
JustYieldedKey(t) == frame[t].samples[frame[t].y_i - 1][1]

\* C17: a record has tags exactly when its labelKey is not empty, and then tags maps
\* each label name of the labelKey, and no other, to the text of the label value the
\* metric was created with
C17_TagsIffLabelled ==
    \A t \in Threads :
        pc[t] = "collect_queue" =>
            LET r == JustYielded(t)
                L == JustYieldedKey(t)
            IN  /\ ("tags" \in DOMAIN r) <=> (L # <<>>)
                /\ L # <<>> =>
                      /\ Len(r.tags) = Len(L)
                      /\ DictKeys(r.tags) = {L[i][1] : i \in DOMAIN L}
                      /\ \A i \in DOMAIN L : DictGet(r.tags, L[i][1]) = L[i][2]
                      /\ \A u \in Threads :
                            (last[u].op \in Accessors /\ last[u].key[2] = L) =>
                                \A j \in DOMAIN last[u].labels :
                                    DictGet(r.tags, last[u].labels[j][1])
                                        = last[u].labels[j][2].text

\* a record has been yielded for the labelKey of a metric that was created with an
\* integer label value, after a record without tags
C17_Witness ==
    \E t \in Threads :
        /\ pc[t] = "collect_queue"
        /\ JustYielded(t).samples # <<>>
        /\ JustYieldedKey(t) # <<>>
        /\ \E i \in DOMAIN frame[t].yielded : "tags" \notin DOMAIN frame[t].yielded[i][2]
        /\ \E u \in Threads :
              /\ last[u].op \in Accessors
              /\ last[u].key[2] = JustYieldedKey(t)
              /\ last[u].labels[1][2].type = "int"

\* ---------------------------------------------------------------- C18
\* C18: a collect() that runs while an application thread calls counter() or gauge() to
\* create new keys in the MetricsSet being collected always runs to completion: it
\* raises nothing
C18_CollectCompletesBesideAccessors ==
    \A t \in Threads :
        last[t].op = "MetricsRegistry.collect" => last[t].exc = "none"

\* ---------------------------------------------------------------- C19
\* the step is one of the collector thread
CollectorStep == pc'["t2"] # pc["t2"] \/ frame'["t2"] # frame["t2"]

\* the step leaves every MetricsSet, Counter and Gauge as it was
MetricsUntouched == sets' = sets /\ counters' = counters /\ gauges' = gauges

\* the samples and tags of the queued events from position a + 1 to b
Payloads(a, b) ==
    [i \in 1..(b - a) |->
        LET r == queue[a + i][2]
        IN  IF "tags" \in DOMAIN r THEN <<r.samples, r.tags>> ELSE <<r.samples>>]

\* thread t is at the end of a MetricsRegistry.collect() that was started right after
\* the previous one had returned, with no other call in between
SecondOfTwo(t) ==
    /\ pc[t] = "collect_next"
    /\ frame[t].rc_i > frame[t].rc_n
    /\ last[t].op = "MetricsRegistry.collect"
    /\ last[t].exc = "none"
    /\ frame[t].b0 = last[t].b0 - 1

\* two consecutive collects have queued the same samples and tags
SameAsBefore ==
    \A t \in Threads :
        SecondOfTwo(t) =>
            Payloads(last[t].q0, frame[t].q0) = Payloads(frame[t].q0, Len(queue))

\* C19: with the default before_collect and no writer running, no step of collect()
\* changes a MetricsSet, a Counter or a Gauge, and two consecutive collect() calls
\* yield the same samples and tags
C19_CollectReadsOnly == []SameAsBefore /\ [][CollectorStep => MetricsUntouched]_vars

\* the second of two consecutive collects has queued the record of a counter that was
\* incremented
C19_Witness ==
    \E t \in Threads :
        /\ SecondOfTwo(t)
        /\ Len(queue) > frame[t].q0
        /\ frame[t].q0 > last[t].q0
        /\ \E c \in DOMAIN counters : counters[c]._val > 0

\* ---------------------------------------------------------------- C20
\* the (name, labelKey) pairs under which MetricsSet s stores both a Counter and a Gauge
SharedKeys(s) ==
    {k \in DictKeys(sets[s]._counters) \cap DictKeys(sets[s]._gauges) :
        /\ DictGet(sets[s]._counters, k) # noop_metric
        /\ DictGet(sets[s]._gauges, k) # noop_metric}

\* C20: when a MetricsSet stores a Counter and a Gauge under the same name and labelKey,
\* the record of that labelKey has a single sample entry for the name, and its value is
\* the value of the Gauge
C20_GaugeShadowsCounter ==
    \A t \in Threads :
        (pc[t] = "collect_next" /\ frame[t].sid # 0) =>
            LET s == frame[t].sid
                Y == YieldedBy(t, s)
            IN  \A k \in SharedKeys(s) :
                    \E i \in DOMAIN Y :
                        /\ RecordIsFor(Y[i], k[2])
                        /\ Cardinality({j \in DOMAIN Y[i].samples :
                                           Y[i].samples[j][1] = k[1]}) = 1
                        /\ DictGet(Y[i].samples, k[1]).value
                              = Val(DictGet(sets[s]._gauges, k))

\* a collect() is exhausted on a MetricsSet that stores, under one name and labelKey, a
\* Counter and a Gauge of different values
C20_Witness ==
    \E t \in Threads :
        /\ pc[t] = "collect_next" /\ frame[t].sid # 0
        /\ \E k \in SharedKeys(frame[t].sid) :
              Val(DictGet(sets[frame[t].sid]._counters, k))
                  # Val(DictGet(sets[frame[t].sid]._gauges, k))

====
